---- MODULE Spec2Model ----
(***************************************************************************)
(* Ranking and cache layer of the Redis section (src/src/redis):           *)
(*   RedisRankings  (rankings.py)  scored ordered indices, reviews,        *)
(*                                 trending window                         *)
(*   RedisManager   (database.py)  bulk rankings, reviews, hand-made       *)
(*                                 top-N cache and its invalidation        *)
(*   RedisCache     (cache.py)     memoization decorator and statistics    *)
(* All three classes work on one Redis keyspace, which is the state here.  *)
(* Ratings and scores are Python floats; they are modelled as reduced      *)
(* rationals <<num, den>>; log10 is a table in units of 1/LogUnit.         *)
(***************************************************************************)
EXTENDS Integers, Sequences, FiniteSets, TLC

VARIABLES
    hashes,     \* business:{id}            hash per entity id
    zsets,      \* ranking:business:* and trending:*   sorted sets, by key
    lists,      \* business:{id}:reviews    list per entity id
    strs,       \* cache:*                  string keys with their TTL
    trendTTL,   \* TTL of trending:businesses:last_hour (-1: none)
    source,     \* the data a memoized function reads
    calls,      \* invocations of memoized functions so far
    nops,       \* operations performed so far
    last,       \* the last operation: arguments, result, what it touched
    inflight    \* per concurrent caller: where its call stands, its locals

vars == <<hashes, zsets, lists, strs, trendTTL, source, calls, nops, last, inflight>>

(***************************************************************************)
(* Bounds of the model.                                                    *)
(***************************************************************************)
MaxOps == 3
MaxManagerOps == 4
MaxPop == 3
MaxLimit == 2
MaxCacheOps == 4
MaxSteps == 6
MaxLogOps == 102
MaxVaried == 2

(***************************************************************************)
(* Program constants.                                                      *)
(***************************************************************************)
StarsWeight == 100
LogWeight == 10
OpenWeight == 5
MaxCategories == 3
ReviewLogCap == 100
TrendingTTL == 3600
TopCacheTTL == 300
NoExpiry == -1

\* entity ids, in lexicographic order
SortedIds == <<"b1", "b2">>
Ids == {SortedIds[i] : i \in 1..Len(SortedIds)}
IdRank(id) == CHOOSE i \in 1..Len(SortedIds) : SortedIds[i] = id

(***************************************************************************)
(* Floats as reduced rationals <<num, den>>, den > 0.                      *)
(***************************************************************************)
RECURSIVE GCD(_, _)
GCD(a, b) == IF b = 0 THEN a ELSE GCD(b, a % b)

Abs(n) == IF n < 0 THEN -n ELSE n

Rat(n, d) ==
    LET g == GCD(Abs(n), d)
    IN  <<n \div g, d \div g>>

RatAdd(p, q) == Rat(p[1] * q[2] + q[1] * p[2], p[2] * q[2])
RatMulInt(p, k) == Rat(p[1] * k, p[2])
RatDivInt(p, k) == Rat(p[1], p[2] * k)
RatLess(p, q) == p[1] * q[2] < q[1] * p[2]

\* round(x, 2): to the nearest hundredth; an exact tie goes to the even one
Round2(q) ==
    LET fl   == (100 * q[1]) \div q[2]
        rem2 == 2 * ((100 * q[1]) % q[2])
        h    == IF rem2 < q[2] THEN fl
                ELSE IF rem2 > q[2] THEN fl + 1
                ELSE IF fl % 2 = 0 THEN fl ELSE fl + 1
    IN  Rat(h, 100)

\* math.log10(n) for n = 1..12, in units of 1/LogUnit
LogUnit == 10000
Log10 ==
    <<0, 3010, 4771, 6021, 6990, 7782, 8451, 9031, 9542, 10000, 10414, 10792>>

Max(a, b) == IF a > b THEN a ELSE b

(***************************************************************************)
(* Strings.                                                                *)
(***************************************************************************)
\* str.lower().replace(' ', '_').replace('&', 'and') on the names in use
Lower(s) ==
    CASE s = "Madrid" -> "madrid"
      [] s = "Madridejos" -> "madridejos"
      [] s = "Bars" -> "bars"
      [] s = "Food" -> "food"
      [] s = "Spa" -> "spa"
      [] s = "Pubs" -> "pubs"
      [] OTHER -> s

NormTag(tok) == Lower(tok)

\* a list value (the caller's), a comma separated string (the caller's),
\* or the JSON text of a list (what the hash stores)
ListOf(items) == [t |-> "list", v |-> items]
CsvOf(items) == [t |-> "csv", v |-> items]
JsonOf(items) == [t |-> "json", v |-> items]

\* [cat.strip() for cat in categories.split(',')] on a comma separated string;
\* ''.split(',') is ['']
SplitComma(c) == IF c.v = <<>> THEN <<"">> ELSE c.v

(***************************************************************************)
(* The hash of an entity.  A field that is not set holds the Missing value *)
(* of its type; a hash with no field set does not exist.                   *)
(***************************************************************************)
MissingStr == "<missing>"
MissingNum == <<0, 0>>
MissingInt == -1
MissingCats == [t |-> "missing", v |-> <<>>]

NoRecord ==
    [city |-> MissingStr, stars |-> MissingNum, review_count |-> MissingInt,
     is_open |-> MissingInt, categories |-> MissingCats]

\* text that float() and int() do not take: they raise ValueError
BadNum == <<1, 0>>
BadInt == -2

FloatRaises(x) == x = BadNum
IntRaises(x) == x = BadInt

HasStr(x) == x # MissingStr
HasNum(x) == x # MissingNum
HasInt(x) == x # MissingInt
HasCats(x) == x.t # "missing"

\* redis.hset(key, mapping=m): the fields of m that are set replace h's
HSet(h, m) ==
    [city |-> IF HasStr(m.city) THEN m.city ELSE h.city,
     stars |-> IF HasNum(m.stars) THEN m.stars ELSE h.stars,
     review_count |-> IF HasInt(m.review_count) THEN m.review_count ELSE h.review_count,
     is_open |-> IF HasInt(m.is_open) THEN m.is_open ELSE h.is_open,
     categories |-> IF HasCats(m.categories) THEN m.categories ELSE h.categories]

\* redis.hgetall(key) is empty (falsy) for a key that does not exist
Exists(h) == h # NoRecord

\* a business_data dict: the fields of a hash and, from a caller, business_id
Dict(business_id, h) ==
    [business_id |-> business_id, city |-> h.city, stars |-> h.stars,
     review_count |-> h.review_count, is_open |-> h.is_open,
     categories |-> h.categories]

\* dict.update(m) of the fields m sets
Update(d, m) == Dict(d.business_id, HSet(d, m))

(***************************************************************************)
(* Sorted sets.  A key is [kind, tag]; zsets maps the keys that exist to   *)
(* a function from members to scores.                                      *)
(***************************************************************************)
NoTag == ""
GlobalKey == [kind |-> "global", tag |-> NoTag]
PopularityKey == [kind |-> "popularity", tag |-> NoTag]
TrendingKey == [kind |-> "trending", tag |-> NoTag]
CityKey(tag) == [kind |-> "city", tag |-> tag]
CategoryKey(tag) == [kind |-> "category", tag |-> tag]

Members(z, key) == IF key \in DOMAIN z THEN DOMAIN z[key] ELSE {}

\* redis.zadd(key, {member: score})
ZAdd(z, key, member, score) ==
    IF key \in DOMAIN z
    THEN [z EXCEPT ![key] = (member :> score) @@ z[key]]
    ELSE (key :> (member :> score)) @@ z

\* redis.zincrby(key, amount, member)
ZIncrBy(z, key, amount, member) ==
    IF member \in Members(z, key)
    THEN ZAdd(z, key, member, RatAdd(z[key][member], Rat(amount, 1)))
    ELSE ZAdd(z, key, member, Rat(amount, 1))

\* Redis orders a sorted set by score and, for equal scores, by member
Before(zs, m1, m2) ==
    \/ RatLess(zs[m1], zs[m2])
    \/ zs[m1] = zs[m2] /\ IdRank(m1) < IdRank(m2)

RECURSIVE SortDesc(_, _)
SortDesc(zs, S) ==
    IF S = {} THEN <<>>
    ELSE LET m == CHOOSE x \in S : \A y \in S \ {x} : Before(zs, y, x)
         IN  <<m>> \o SortDesc(zs, S \ {m})

Min(a, b) == IF a < b THEN a ELSE b

\* redis.zrevrange(key, 0, stop): highest score first; a negative stop counts
\* from the end (-1 is the last element)
ZRevRange(z, key, stop) ==
    LET all == IF key \in DOMAIN z THEN SortDesc(z[key], DOMAIN z[key]) ELSE <<>>
        n   == Len(all)
        e   == IF stop < 0 THEN n + stop ELSE Min(stop, n - 1)
    IN  IF e < 0 THEN <<>> ELSE SubSeq(all, 1, e + 1)

(***************************************************************************)
(* RedisRankings.update_business_ranking                                   *)
(***************************************************************************)
\* stars * 100 + log10(max(review_count, 1)) * 10 + is_open * 5
ScoringFunction(stars, review_count, is_open) ==
    RatAdd(RatMulInt(stars, StarsWeight),
           Rat(Log10[Max(review_count, 1)] * LogWeight + is_open * OpenWeight * LogUnit,
               LogUnit))

\* the category list the call works on: the caller's list, or a string split
CategoryList(c) ==
    IF ~HasCats(c) THEN <<>>
    ELSE IF c.t = "list" THEN c.v
    ELSE SplitComma(c)

\* categories[:4], one category more than the code takes
FirstFourCategories(cats) == SubSeq(cats, 1, Min(MaxCategories + 1, Len(cats)))

\* categories[:3]
FirstCategories(cats) == SubSeq(cats, 1, Min(MaxCategories, Len(cats)))

CityTag(bd) == NormTag(IF HasStr(bd.city) THEN bd.city ELSE "unknown")

\* the sorted sets the call writes to
RankingKeys(bd) ==
    LET cats == FirstCategories(CategoryList(bd.categories))
    IN  {GlobalKey}
        \cup (IF CityTag(bd) # "unknown" THEN {CityKey(CityTag(bd))} ELSE {})
        \cup {CategoryKey(NormTag(cats[i])) : i \in 1..Len(cats)}

\* the member written to the keys given and taken out of every other set
ZAddAllPruning(z, keys, member, score) ==
    [k \in DOMAIN z \cup keys |->
        IF k \in keys
        THEN IF k \in DOMAIN z THEN (member :> score) @@ z[k] ELSE (member :> score)
        ELSE [m \in DOMAIN z[k] \ {member} |-> z[k][m]]]

ZAddAll(z, keys, member, score) ==
    [k \in DOMAIN z \cup keys |->
        IF k \in keys
        THEN IF k \in DOMAIN z THEN (member :> score) @@ z[k] ELSE (member :> score)
        ELSE z[k]]

\* what update_business_ranking(bd) does to the sorted sets and to the hashes,
\* the score it returns and the sorted sets it wrote; without a business_id
\* it logs an error and returns 0.0; float() or int() raising ends the call
\* before its first write
update_business_ranking(z, hs, bd) ==
    LET id      == bd.business_id
        stars   == IF HasNum(bd.stars) THEN bd.stars ELSE Rat(0, 1)
        count   == IF HasInt(bd.review_count) THEN bd.review_count ELSE 0
        is_open == IF HasInt(bd.is_open) THEN bd.is_open ELSE 0
        score   == ScoringFunction(stars, count, is_open)
        keys    == RankingKeys(bd)
    IN  IF ~HasStr(id) \/ id = ""
        THEN [zsets |-> z, hashes |-> hs, score |-> Rat(0, 1), written |-> {},
              raised |-> FALSE]
        ELSE IF FloatRaises(bd.stars) \/ IntRaises(bd.review_count) \/ IntRaises(bd.is_open)
        THEN [zsets |-> z, hashes |-> hs, score |-> Rat(0, 1), written |-> {},
              raised |-> TRUE]
        ELSE [zsets   |-> ZAddAll(z, keys, id, score),
              hashes  |-> [hs EXCEPT ![id] =
                             HSet(@, [city |-> IF HasStr(bd.city) THEN bd.city ELSE "",
                                      stars |-> stars,
                                      review_count |-> count,
                                      is_open |-> is_open,
                                      categories |-> JsonOf(CategoryList(bd.categories))])],
              score   |-> score,
              written |-> keys,
              raised  |-> FALSE]

(***************************************************************************)
(* The cache keyspace.  A key is the hand-made top-N key                   *)
(*   cache:top_businesses:{sorted set key}:{limit}                         *)
(* a memoization key  cache:{function}:{md5 of the arguments}              *)
(* or a statistics counter  cache:stats:{stat}[:{function}].               *)
(* An entry holds its payload and its remaining TTL; stale marks a top-N   *)
(* entry written before a later change of an entity of its sorted set.     *)
(***************************************************************************)
TopKey(index, limit) ==
    [kind |-> "top", index |-> index, limit |-> limit, func |-> "", arg |-> 0, stat |-> ""]
MemoKey(func, arg) ==
    [kind |-> "memo", index |-> GlobalKey, limit |-> 0, func |-> func, arg |-> arg, stat |-> ""]
StatKey(stat, func) ==
    [kind |-> "stats", index |-> GlobalKey, limit |-> 0, func |-> func, arg |-> 0, stat |-> stat]

Entry(payload, ttl) == [val |-> payload, ttl |-> ttl, stale |-> FALSE]

\* json.dumps / json.loads
Dumps(v) == [enc |-> "json", v |-> v]
Corrupt == [enc |-> "corrupt", v |-> 0]

\* redis.get(key): None for a key that does not exist
Get(s, key) == IF key \in DOMAIN s THEN s[key].val ELSE [enc |-> "none", v |-> 0]

\* redis.setex(key, ttl, value)
SetEx(s, key, ttl, payload) ==
    IF key \in DOMAIN s
    THEN [s EXCEPT ![key] = Entry(payload, ttl)]
    ELSE (key :> Entry(payload, ttl)) @@ s

\* redis.delete(*keys)
Delete(s, keys) == [k \in DOMAIN s \ keys |-> s[k]]

\* the integer a counter key holds, 0 when it does not exist
Counter(s, key) == IF key \in DOMAIN s THEN s[key].val.v ELSE 0

\* p is a prefix of s, for the tags in use
StartsWith(s, p) == p = s \/ p = "" \/ (s = "madridejos" /\ p = "madrid")

\* KEYS cache:*{business_id}* : the id occurs in the text of the key
MatchesId(k, id) ==
    \/ k.kind = "top" /\ k.index.tag = id
    \/ k.kind \in {"memo", "stats"} /\ k.func = id

\* KEYS cache:*city:{tag}* : "city:" followed by the tag occurs in the key
MatchesCity(k, tag) ==
    /\ k.kind = "top"
    /\ k.index.kind = "city"
    /\ StartsWith(k.index.tag, tag)

(***************************************************************************)
(* The record of the last operation.                                       *)
(***************************************************************************)
Result(status, value) == [status |-> status, value |-> value]

ScoreIn(z, key, id) == IF id \in Members(z, key) THEN z[key][id] ELSE MissingNum

Op(op, id, arg, result, written) ==
    [op |-> op, id |-> id, arg |-> arg, result |-> result, written |-> written,
     pre |-> IF id \in Ids THEN hashes[id] ELSE NoRecord,
     preScore |-> ScoreIn(zsets, GlobalKey, id),
     hit |-> FALSE, servedStale |-> FALSE, afterExpiry |-> FALSE, failed |-> "",
     dHits |-> 0, dMisses |-> 0]

\* an upsert or a review of the entities ids makes stale the cached top-N of
\* every sorted set that held one of them before or holds one after
MarkStale(s, zOld, zNew, ids) ==
    [k \in DOMAIN s |->
        IF /\ k.kind = "top"
           /\ ids \cap (Members(zOld, k.index) \cup Members(zNew, k.index)) # {}
        THEN [s[k] EXCEPT !.stale = TRUE]
        ELSE s[k]]

Budget == nops < MaxOps

HitsKey == StatKey("hits", "")
MissesKey == StatKey("misses", "")
SizeKey == StatKey("data_size", "")

\* the operation is recorded with what it did to the global counters; a call
\* run from its first line to its return leaves the calls in flight alone
Step(o) ==
    /\ nops' = nops + 1
    /\ inflight' = inflight
    /\ last' = [o EXCEPT !.dHits = Counter(strs', HitsKey) - Counter(strs, HitsKey),
                         !.dMisses = Counter(strs', MissesKey) - Counter(strs, MissesKey)]

(***************************************************************************)
(* Inputs.                                                                 *)
(***************************************************************************)
InCities == {"Madrid", MissingStr}
ReviewStars == {Rat(4, 1), Rat(5, 1)}

\* rating, popularity, open flag and categories of the businesses upserted
Profiles ==
    {[stars |-> Rat(4, 1), review_count |-> 2, is_open |-> 1,
      categories |-> ListOf(<<"Bars", "Food", "Spa", "Pubs">>)],
     [stars |-> Rat(9, 2), review_count |-> 0, is_open |-> 0,
      categories |-> CsvOf(<<"Bars">>)]}

BusinessData ==
    {Dict(id, [city |-> c, stars |-> p.stars, review_count |-> p.review_count,
               is_open |-> p.is_open, categories |-> p.categories]) :
        id \in Ids, c \in InCities, p \in Profiles}

\* a business_data with text that is not a number as its rating, its
\* popularity or its open flag
MalformedData ==
    {Dict(id, [city |-> "Madrid", stars |-> st, review_count |-> rc, is_open |-> op,
               categories |-> CsvOf(<<"Bars">>)]) :
        id \in Ids,
        st \in {Rat(4, 1), BadNum}, rc \in {2, BadInt}, op \in {1, BadInt}}
        \ {Dict(id, [city |-> "Madrid", stars |-> Rat(4, 1), review_count |-> 2,
                     is_open |-> 1, categories |-> CsvOf(<<"Bars">>)]) : id \in Ids}

\* a business_data without its business_id
NoIdData ==
    Dict(MissingStr, [NoRecord EXCEPT !.stars = Rat(4, 1), !.review_count = 2])

(***************************************************************************)
(* RedisRankings: the actions                                              *)
(***************************************************************************)
\* update_business_ranking(business_data)
Upsert(bd) ==
    LET eff == update_business_ranking(zsets, hashes, bd)
        id  == IF HasStr(bd.business_id) THEN bd.business_id ELSE ""
    IN  /\ zsets' = eff.zsets
        /\ hashes' = eff.hashes
        /\ strs' = IF id = "" THEN strs ELSE MarkStale(strs, zsets, eff.zsets, {id})
        /\ UNCHANGED <<lists, trendTTL, source, calls>>
        /\ Step(Op("upsert", id, bd,
                   Result(IF id = "" THEN "error" ELSE IF eff.raised THEN "raise" ELSE "ok",
                          eff.score),
                   eff.written))

\* a default record that already counts one review
DefaultBusinessCounted ==
    [NoRecord EXCEPT !.stars = Rat(0, 1), !.review_count = 1, !.city = "unknown"]

\* the record update_ranking_on_review works on when the hash does not exist
DefaultBusiness ==
    [NoRecord EXCEPT !.stars = Rat(0, 1), !.review_count = 0, !.city = "unknown"]

\* the sum of the ratings without the division by the new count
NewAverageUndivided(current_stars, current_reviews, new_stars) ==
    RatAdd(RatMulInt(current_stars, current_reviews), new_stars)

\* new_avg of update_ranking_on_review
NewAverage(current_stars, current_reviews, new_stars) ==
    IF current_reviews > 0
    THEN RatDivInt(RatAdd(RatMulInt(current_stars, current_reviews), new_stars),
                   current_reviews + 1)
    ELSE new_stars

\* redis.lpush(key, entry) then a trim that keeps the 100 oldest entries
PushTrimOldest(l, entry) ==
    SubSeq(<<entry>> \o l, Max(Len(l) + 2 - ReviewLogCap, 1), Len(l) + 1)

\* redis.lpush(key, entry) then redis.ltrim(key, 0, 99)
PushTrim(l, entry) == SubSeq(<<entry>> \o l, 1, Min(ReviewLogCap, Len(l) + 1))

\* update_ranking_on_review({'business_id': id, 'stars': new_stars}) up to
\* the ZINCRBY of _update_trending: what it leaves in the store and what it
\* returns.  business_data is what hgetall returned (or the default record):
\* it has no business_id when it is handed to update_business_ranking.
\* float() of the rating given or stored and int() of the count stored are
\* taken before the first write
update_ranking_on_review_from(record, id, new_stars) ==
    LET stored          == Exists(record)
        business_data   == Dict(MissingStr, IF stored THEN record ELSE DefaultBusiness)
        current_stars   == IF HasNum(business_data.stars) THEN business_data.stars
                           ELSE Rat(0, 1)
        current_reviews == IF HasInt(business_data.review_count)
                           THEN business_data.review_count ELSE 0
        new_avg         == NewAverage(current_stars, current_reviews, new_stars)
        updated_data    == [NoRecord EXCEPT !.stars = Round2(new_avg),
                                            !.review_count = current_reviews + 1]
        h2  == [hashes EXCEPT ![id] = HSet(@, updated_data)]
        eff == update_business_ranking(zsets, h2, Update(business_data, updated_data))
    IN  IF \/ FloatRaises(new_stars)
           \/ FloatRaises(business_data.stars)
           \/ IntRaises(business_data.review_count)
        THEN [hashes |-> hashes, zsets |-> zsets, lists |-> lists, current_reviews |-> 0,
              result |-> Result("raise", [new_average |-> Rat(0, 1), new_score |-> Rat(0, 1),
                                          total_reviews |-> 0]),
              written |-> {}]
        ELSE [hashes |-> eff.hashes,
              zsets |-> ZIncrBy(eff.zsets, TrendingKey, 1, id),
              lists |-> [lists EXCEPT ![id] = PushTrim(@, new_stars)],
              current_reviews |-> current_reviews,
              result |-> Result("ok", [new_average |-> new_avg, new_score |-> eff.score,
                                       total_reviews |-> current_reviews + 1]),
              written |-> eff.written]

\* the call when no other command comes between its hgetall and its writes
update_ranking_on_review(id, new_stars) ==
    update_ranking_on_review_from(hashes[id], id, new_stars)

\* the whole call by one caller: _update_trending sets the expiry of the
\* trending key when the key has none
ReviewCall(id, new_stars) ==
    LET eff == update_ranking_on_review(id, new_stars)
    IN  /\ hashes' = eff.hashes
        /\ zsets' = eff.zsets
        /\ lists' = eff.lists
        /\ trendTTL' = IF trendTTL = NoExpiry /\ eff.result.status = "ok"
                       THEN TrendingTTL ELSE trendTTL
        /\ strs' = MarkStale(strs, zsets, eff.zsets, {id})
        /\ UNCHANGED <<source, calls>>
        /\ Step(Op("review", id, new_stars, eff.result, eff.written))

\* the call for an entity whose popularity is below the bound of the model
Review(id, new_stars) ==
    /\ update_ranking_on_review(id, new_stars).current_reviews < MaxPop
    /\ ReviewCall(id, new_stars)

\* another writer of the store leaves text that is not a number in a field
\* of the record of id
MalformedFields ==
    {[NoRecord EXCEPT !.stars = BadNum], [NoRecord EXCEPT !.review_count = BadInt],
     [NoRecord EXCEPT !.is_open = BadInt]}

ForeignHSet(id, m) ==
    /\ Exists(hashes[id])
    /\ hashes' = [hashes EXCEPT ![id] = HSet(@, m)]
    /\ UNCHANGED <<zsets, lists, strs, trendTTL, source, calls>>
    /\ Step(Op("foreign", id, 0, Result("ok", 0), {}))

\* update_ranking_on_review without a business_id
ReviewNoId ==
    /\ UNCHANGED <<hashes, zsets, lists, strs, trendTTL, source, calls>>
    /\ Step(Op("review", "", Rat(0, 1), Result("error", 0), {}))

\* the sorted set key get_top_businesses / get_rank_position read
RankingKey(ranking_type, location) ==
    IF ranking_type = "city" /\ location # ""
    THEN CityKey(NormTag(location))
    ELSE IF ranking_type = "category" /\ location # ""
         THEN CategoryKey(NormTag(location))
         ELSE GlobalKey

\* json.loads of the stored categories field
ParseCategories(h) ==
    IF h.categories.t = "json" THEN [h EXCEPT !.categories = ListOf(h.categories.v)] ELSE h

\* one dict per id whose hash exists
RECURSIVE Enrich(_, _, _, _)
Enrich(ids, z, key, h) ==
    IF ids = <<>> THEN <<>>
    ELSE LET id == Head(ids)
         IN  (IF Exists(h[id])
              THEN <<[business_id |-> id, score |-> z[key][id],
                      data |-> ParseCategories(h[id])]>>
              ELSE <<>>)
             \o Enrich(Tail(ids), z, key, h)

\* RedisRankings.get_top_businesses(ranking_type, location, limit, with_scores)
Rankings_get_top_businesses(ranking_type, location, limit) ==
    LET key == RankingKey(ranking_type, location)
        results == ZRevRange(zsets, key, limit - 1)
    IN  /\ UNCHANGED <<hashes, zsets, lists, strs, trendTTL, source, calls>>
        /\ Step(Op("top", "", [index |-> key, limit |-> limit],
                   Result("ok", Enrich(results, zsets, key, hashes)), {}))

\* the dicts get_trending_businesses builds, one per id whose hash exists;
\* int(trend_score) cuts the fraction off
RECURSIVE TrendingEntries(_, _, _)
TrendingEntries(ids, z, h) ==
    IF ids = <<>> THEN <<>>
    ELSE LET id == Head(ids)
             trend_score == z[TrendingKey][id]
         IN  (IF Exists(h[id])
              THEN <<[business_id |-> id, trend_score |-> trend_score[1] \div trend_score[2],
                      city |-> h[id].city]>>
              ELSE <<>>)
             \o TrendingEntries(Tail(ids), z, h)

\* RedisRankings.get_trending_businesses(limit)
get_trending_businesses(limit) ==
    LET results == ZRevRange(zsets, TrendingKey, limit - 1)
    IN  /\ UNCHANGED <<hashes, zsets, lists, strs, trendTTL, source, calls>>
        /\ Step(Op("trending", "", [index |-> TrendingKey, limit |-> limit],
                   Result("ok", TrendingEntries(results, zsets, hashes)), {}))

\* redis.zrevrank(key, member): the 0-based place of the member, highest
\* score first; None (MissingInt) for a member or a key that does not exist
ZRevRank(z, key, member) ==
    IF member \in Members(z, key)
    THEN (CHOOSE i \in 1..Cardinality(Members(z, key)) :
              ZRevRange(z, key, -1)[i] = member) - 1
    ELSE MissingInt

\* a missing member answered with the place after the last one
RankAfterLast(z, key, business_id) ==
    Result("ok", IF business_id \in Members(z, key)
                 THEN ZRevRank(z, key, business_id) + 1
                 ELSE Cardinality(Members(z, key)) + 1)

\* the 0-based place returned as it is
RankFromZero(z, key, business_id) ==
    LET position == ZRevRank(z, key, business_id)
    IN  IF position # MissingInt THEN Result("ok", position) ELSE Result("none", 0)

\* position + 1 if position is not None else None
RankResult(z, key, business_id) ==
    LET position == ZRevRank(z, key, business_id)
    IN  IF position # MissingInt THEN Result("ok", position + 1) ELSE Result("none", 0)

\* RedisRankings.get_rank_position(business_id, ranking_type, location)
get_rank_position(business_id, ranking_type, location) ==
    LET key == RankingKey(ranking_type, location)
    IN  /\ UNCHANGED <<hashes, zsets, lists, strs, trendTTL, source, calls>>
        /\ Step(Op("rank", business_id, [index |-> key, limit |-> 0],
                   RankResult(zsets, key, business_id), {}))

(***************************************************************************)
(* RedisManager                                                            *)
(***************************************************************************)
\* create_rankings: the three loops over businesses_data, for one business
CreateOne(z, id, bd) ==
    LET score == RatMulInt(bd.stars, StarsWeight)
        city  == NormTag(IF HasStr(bd.city) THEN bd.city ELSE "unknown")
    IN  ZAdd(ZAdd(ZAdd(z, GlobalKey, id, score), CityKey(city), id, score),
             PopularityKey, id, Rat(bd.review_count, 1))

CreateHash(h, bd) ==
    HSet(h, [NoRecord EXCEPT !.city = IF HasStr(bd.city) THEN bd.city ELSE "",
                             !.stars = bd.stars,
                             !.review_count = bd.review_count])

RECURSIVE CreateAll(_, _, _)
CreateAll(z, h, businesses) ==
    IF businesses = <<>> THEN [zsets |-> z, hashes |-> h]
    ELSE LET b == Head(businesses)
         IN  CreateAll(CreateOne(z, b.business_id, b.data),
                       [h EXCEPT ![b.business_id] = CreateHash(@, b.data)],
                       Tail(businesses))

BulkData ==
    {[NoRecord EXCEPT !.city = "Madrid", !.stars = Rat(4, 1), !.review_count = 2],
     [NoRecord EXCEPT !.stars = Rat(9, 2), !.review_count = 0]}

BulkLists ==
    {<<[business_id |-> id, data |-> bd]>> : id \in Ids, bd \in BulkData}
    \cup {<<[business_id |-> SortedIds[1], data |-> bd[1]],
            [business_id |-> SortedIds[2], data |-> bd[2]]>> : bd \in BulkData \X BulkData}

\* create_rankings(businesses_data)
create_rankings(businesses) ==
    LET eff == CreateAll(zsets, hashes, businesses)
    IN  /\ zsets' = eff.zsets
        /\ hashes' = eff.hashes
        /\ UNCHANGED <<lists, strs, trendTTL, source, calls>>
        /\ Step(Op("create", "", businesses, Result("ok", 0), {}))

\* invalidate_cache(business_id, city)
invalidate_cache(s, business_id, city) ==
    LET s1 == IF business_id # ""
              THEN Delete(s, {k \in DOMAIN s : MatchesId(k, business_id)})
              ELSE s
    IN  IF city # ""
        THEN Delete(s1, {k \in DOMAIN s1 : MatchesCity(k, Lower(city))})
        ELSE s1

\* update_ranking_on_new_review for an entity whose hash exists; a hash
\* without a city field raises KeyError after the global index is written
NewReview(id, new_stars) ==
    LET business_data   == hashes[id]
        current_stars   == business_data.stars
        current_reviews == business_data.review_count
        new_avg   == RatDivInt(RatAdd(RatMulInt(current_stars, current_reviews), new_stars),
                               current_reviews + 1)
        new_score == RatMulInt(new_avg, StarsWeight)
        has_city  == HasStr(business_data.city)
        city      == Lower(business_data.city)
        z1 == ZAdd(zsets, GlobalKey, id, new_score)
        z2 == IF has_city
              THEN ZAdd(ZAdd(z1, CityKey(city), id, new_score),
                        PopularityKey, id, Rat(current_reviews + 1, 1))
              ELSE z1
    IN  /\ Exists(business_data)
        /\ current_reviews < MaxPop
        /\ hashes' = [hashes EXCEPT ![id] = [@ EXCEPT !.stars = new_avg,
                                                      !.review_count = current_reviews + 1]]
        /\ zsets' = z2
        /\ strs' = IF has_city
                   THEN invalidate_cache(MarkStale(strs, zsets, z2, {id}), id, city)
                   ELSE MarkStale(strs, zsets, z2, {id})
        /\ UNCHANGED <<lists, trendTTL, source, calls>>
        /\ Step(Op("new_review", id, new_stars,
                   IF has_city THEN Result("ok", new_avg) ELSE Result("raise", new_avg),
                   IF has_city THEN {GlobalKey, CityKey(city), PopularityKey}
                   ELSE {GlobalKey}))

\* update_ranking_on_new_review for an entity whose hash does not exist
NewReviewAbsent(id, new_stars) ==
    /\ ~Exists(hashes[id])
    /\ UNCHANGED <<hashes, zsets, lists, strs, trendTTL, source, calls>>
    /\ Step(Op("new_review", id, new_stars, Result("none", Rat(0, 1)), {}))

\* the dicts RedisManager.get_top_businesses builds
RECURSIVE Snapshot(_, _)
Snapshot(ids, h) ==
    IF ids = <<>> THEN <<>>
    ELSE (IF Exists(h[Head(ids)])
          THEN <<[business_id |-> Head(ids), score |-> MissingNum, data |-> h[Head(ids)]]>>
          ELSE <<>>)
         \o Snapshot(Tail(ids), h)

ManagerKey(city) == IF city # "" THEN CityKey(NormTag(city)) ELSE GlobalKey

\* RedisManager.get_top_businesses(limit, city), the key cached
TopCached(limit, city) ==
    LET cache_key == TopKey(ManagerKey(city), limit)
        cached == Get(strs, cache_key)
    IN  /\ cached.enc # "none"
        /\ UNCHANGED <<hashes, zsets, lists, strs, trendTTL, source, calls>>
        /\ Step([Op("mgr_top", "", [index |-> ManagerKey(city), limit |-> limit],
                    IF cached.enc = "json" THEN Result("ok", cached.v)
                    ELSE Result("raise", <<>>), {})
                 EXCEPT !.hit = TRUE, !.servedStale = strs[cache_key].stale])

\* RedisManager.get_top_businesses(limit, city), the key not cached
TopComputed(limit, city) ==
    LET key == ManagerKey(city)
        cache_key == TopKey(key, limit)
        results == Snapshot(ZRevRange(zsets, key, limit - 1), hashes)
    IN  /\ Get(strs, cache_key).enc = "none"
        /\ strs' = SetEx(strs, cache_key, TopCacheTTL, Dumps(results))
        /\ UNCHANGED <<hashes, zsets, lists, trendTTL, source, calls>>
        /\ Step(Op("mgr_top", "", [index |-> key, limit |-> limit],
                   Result("ok", results), {}))

(***************************************************************************)
(* Time: Redis removes a key when its TTL runs out.                        *)
(***************************************************************************)
TickSteps == {100, 3600}

\* a key is kept until more than its TTL has passed
ExpireLate(s, dt) ==
    [k \in {x \in DOMAIN s : s[x].ttl = NoExpiry \/ s[x].ttl >= dt} |->
        IF s[k].ttl = NoExpiry THEN s[k] ELSE [s[k] EXCEPT !.ttl = @ - dt]]

Expire(s, dt) ==
    [k \in {x \in DOMAIN s : s[x].ttl = NoExpiry \/ s[x].ttl > dt} |->
        IF s[k].ttl = NoExpiry THEN s[k] ELSE [s[k] EXCEPT !.ttl = @ - dt]]

Tick(dt) ==
    /\ trendTTL # NoExpiry \/ \E k \in DOMAIN strs : strs[k].ttl # NoExpiry
    /\ strs' = Expire(strs, dt)
    /\ IF trendTTL = NoExpiry \/ trendTTL > dt
       THEN /\ trendTTL' = IF trendTTL = NoExpiry THEN NoExpiry ELSE trendTTL - dt
            /\ zsets' = zsets
       ELSE /\ trendTTL' = NoExpiry
            /\ zsets' = [k \in DOMAIN zsets \ {TrendingKey} |-> zsets[k]]
    /\ UNCHANGED <<hashes, lists, source, calls>>
    /\ Step(Op("tick", "", dt, Result("ok", 0), DOMAIN strs \ DOMAIN strs'))

(***************************************************************************)
(* RedisCache.cache_result: the memoization decorator.  A value is tagged  *)
(* with its Python type; JSON text keeps a tuple as a list and cannot hold *)
(* a set.                                                                  *)
(***************************************************************************)
MemoTTL == 300

IntVal(n) == [t |-> "int", v |-> <<n>>]
TupleVal(items) == [t |-> "tuple", v |-> items]
SetVal(items) == [t |-> "set", v |-> items]

\* json.dumps(x) raises TypeError for a set
Serializable(x) == x.t # "set"

\* json.dumps(x), json.loads(text)
DumpsValue(x) ==
    [enc |-> "json", v |-> [t |-> IF x.t = "tuple" THEN "list" ELSE x.t, v |-> x.v]]
Loads(payload) == payload.v

Digits(n) == IF n < 10 THEN 1 ELSE IF n < 100 THEN 2 ELSE 3

RECURSIVE SumDigits(_)
SumDigits(items) ==
    IF items = <<>> THEN 0 ELSE Digits(Head(items)) + SumDigits(Tail(items))

\* len(json.dumps(x)): the digits, and "[", ", ", "]" around the items of a list
JsonLen(x) ==
    IF x.t = "int" THEN Digits(x.v[1])
    ELSE 2 + SumDigits(x.v) + 2 * Max(Len(x.v) - 1, 0)

\* the decorated functions: a pure one, one that reads the data source and
\* returns a tuple, and one whose result JSON cannot hold
Funcs == {"expensive_calculation", "lookup", "members"}
Args == {2, 3}

Compute(func, n, src) ==
    CASE func = "expensive_calculation" -> IntVal(n * n)
      [] func = "lookup" -> TupleVal(<<n, src>>)
      [] OTHER -> SetVal(<<n>>)

\* the key set to n instead of raised by n
IncrReset(s, key, n) ==
    IF key \in DOMAIN s
    THEN [s EXCEPT ![key].val.v = n]
    ELSE (key :> Entry([enc |-> "int", v |-> n], NoExpiry)) @@ s

\* redis.incr(key) / redis.incrby(key, n): a missing key counts from 0
Incr(s, key, n) ==
    IF key \in DOMAIN s
    THEN [s EXCEPT ![key].val.v = @ + n]
    ELSE (key :> Entry([enc |-> "int", v |-> n], NoExpiry)) @@ s

\* redis.incr / redis.incrby raise ResponseError on a key whose text is not
\* an integer
IncrRaises(s, key) == key \in DOMAIN s /\ s[key].val.enc # "int"

Write(key, n) == [key |-> key, n |-> n]

\* the counter writes of one recording, in program order: the first one that
\* raises ends the recording, the ones before it stay
RECURSIVE IncrEach(_, _)
IncrEach(s, writes) ==
    IF writes = <<>> THEN s
    ELSE IF IncrRaises(s, Head(writes).key) THEN s
    ELSE IncrEach(Incr(s, Head(writes).key, Head(writes).n), Tail(writes))

Raises(s, writes) == \E i \in 1..Len(writes) : IncrRaises(s, writes[i].key)

\* the writes of _record_cache_hit and of _record_cache_miss: the type is
\* the function's name in the key
HitWrites(func) == <<Write(HitsKey, 1), Write(StatKey("hits", func), 1)>>
MissWrites(func, data_size) ==
    <<Write(MissesKey, 1), Write(SizeKey, data_size), Write(StatKey("misses", func), 1)>>

\* a hit recorded in the global counter only
record_cache_hit_global(s, func) == Incr(s, HitsKey, 1)

\* _record_cache_hit(cache_key)
record_cache_hit(s, func) == IncrEach(s, HitWrites(func))

\* a miss recorded without the size of the data
record_cache_miss_unsized(s, func, data_size) ==
    Incr(Incr(s, MissesKey, 1), StatKey("misses", func), 1)

\* _record_cache_miss(cache_key, data_size)
record_cache_miss(s, func, data_size) == IncrEach(s, MissWrites(func, data_size))

MemoOp(func, arg, value, hit) ==
    [Op("memo", "", [func |-> func, arg |-> arg], Result("ok", value), {})
     EXCEPT !.hit = hit]

\* the call ends with the exception of a counter write
NoValue == [t |-> "none", v |-> <<>>]
MemoRaise(func, arg) ==
    Op("memo", "", [func |-> func, arg |-> arg], Result("raise", NoValue), {})

\* wrapper(*args): the key holds JSON text
wrapper_hit(func, arg) ==
    LET cache_key == MemoKey(func, arg)
        cached == Get(strs, cache_key)
    IN  /\ cached.enc = "json"
        /\ strs' = record_cache_hit(strs, func)
        /\ UNCHANGED <<hashes, zsets, lists, trendTTL, source, calls>>
        /\ Step(IF Raises(strs, HitWrites(func))
                THEN MemoRaise(func, arg)
                ELSE MemoOp(func, arg, Loads(cached), TRUE))

\* the function is run and, when JSON can hold its result, the result is
\* cached and a miss recorded; json.dumps raising leaves the store as it is,
\* and a counter write raising is logged and ends the recording
Recompute(s, func, arg, result) ==
    IF Serializable(result)
    THEN record_cache_miss(SetEx(s, MemoKey(func, arg), MemoTTL, DumpsValue(result)),
                           func, JsonLen(result))
    ELSE s

\* wrapper(*args): the key does not exist
wrapper_miss(func, arg) ==
    LET result == Compute(func, arg, source)
    IN  /\ Get(strs, MemoKey(func, arg)).enc = "none"
        /\ calls' = calls + 1
        /\ strs' = Recompute(strs, func, arg, result)
        /\ UNCHANGED <<hashes, zsets, lists, trendTTL, source>>
        /\ Step([MemoOp(func, arg, result, FALSE) EXCEPT
                    !.afterExpiry = last.op = "tick" /\ MemoKey(func, arg) \in last.written])

\* wrapper(*args): the key holds text that is not JSON; the hit is recorded
\* before json.loads fails, then the function is run as on a miss
wrapper_corrupt(func, arg) ==
    LET result == Compute(func, arg, source)
        raised == Raises(strs, HitWrites(func))
    IN  /\ Get(strs, MemoKey(func, arg)).enc = "corrupt"
        /\ calls' = IF raised THEN calls ELSE calls + 1
        /\ strs' = IF raised THEN record_cache_hit(strs, func)
                   ELSE Recompute(record_cache_hit(strs, func), func, arg, result)
        /\ UNCHANGED <<hashes, zsets, lists, trendTTL, source>>
        /\ Step(IF raised THEN MemoRaise(func, arg) ELSE MemoOp(func, arg, result, FALSE))

\* the store cannot be reached and every command raises, whatever the try
\* blocks of wrapper: the function has run when SETEX fails
wrapper_raising(func, arg, command) ==
    /\ command = "setex" => Get(strs, MemoKey(func, arg)).enc = "none"
    /\ calls' = IF command = "setex" THEN calls + 1 ELSE calls
    /\ UNCHANGED <<hashes, zsets, lists, strs, trendTTL, source>>
    /\ Step([MemoRaise(func, arg) EXCEPT !.failed = command])

\* wrapper(*args) when the store cannot be reached for one command, sent
\* once: redis.get raising leaves wrapper; redis.setex raising on a miss is
\* caught and logged, and the result of the function returned
wrapper_unavailable(func, arg, command) ==
    LET result == Compute(func, arg, source)
    IN  IF command = "get"
        THEN /\ UNCHANGED <<hashes, zsets, lists, strs, trendTTL, source, calls>>
             /\ Step([MemoRaise(func, arg) EXCEPT !.failed = command])
        ELSE /\ Get(strs, MemoKey(func, arg)).enc = "none"
             /\ Serializable(result)
             /\ calls' = calls + 1
             /\ UNCHANGED <<hashes, zsets, lists, strs, trendTTL, source>>
             /\ Step([MemoOp(func, arg, result, FALSE) EXCEPT !.failed = command])

\* another client of the store overwrites a cached result with other text
ForeignWrite(func, arg) ==
    /\ MemoKey(func, arg) \in DOMAIN strs
    /\ strs[MemoKey(func, arg)].val.enc = "json"
    /\ strs' = [strs EXCEPT ![MemoKey(func, arg)].val = Corrupt]
    /\ UNCHANGED <<hashes, zsets, lists, trendTTL, source, calls>>
    /\ Step(Op("foreign", "", [func |-> func, arg |-> arg], Result("ok", 0), {}))

\* another client of the store leaves text that is not an integer in a
\* counter key
StatKeys ==
    {HitsKey, MissesKey, SizeKey}
        \cup {StatKey(stat, f) : stat \in {"hits", "misses"}, f \in Funcs}

ForeignWriteStat(key) ==
    /\ ~IncrRaises(strs, key)
    /\ strs' = SetEx(strs, key, NoExpiry, Corrupt)
    /\ UNCHANGED <<hashes, zsets, lists, trendTTL, source, calls>>
    /\ Step(Op("foreign", "", [func |-> key.func, arg |-> 0], Result("ok", 0), {}))

\* the data the decorated function reads changes
ChangeSource ==
    /\ source' = 1 - source
    /\ UNCHANGED <<hashes, zsets, lists, strs, trendTTL, calls>>
    /\ Step(Op("source", "", 0, Result("ok", 0), {}))

\* KEYS cache:{pattern} for the patterns in use: "*", "top_businesses:*"
\* (the keys RedisManager.get_top_businesses writes) and "{function}:*"
Patterns == {"*", "top_businesses"} \cup Funcs

MatchesPattern(k, pattern) ==
    \/ pattern = "*"
    \/ k.kind = "top" /\ pattern = "top_businesses"
    \/ k.kind = "memo" /\ k.func = pattern

\* invalidate_pattern: returns the number of keys deleted
invalidate_pattern(pattern) ==
    LET keys == {k \in DOMAIN strs : MatchesPattern(k, pattern)}
    IN  /\ strs' = Delete(strs, keys)
        /\ UNCHANGED <<hashes, zsets, lists, trendTTL, source, calls>>
        /\ Step(Op("invalidate", "", pattern, Result("ok", Cardinality(keys)), {}))

\* invalidate_function_cache(function_name)
invalidate_function_cache(func) == invalidate_pattern(func)

\* clear_all()
clear_all == invalidate_pattern("*")

\* the callers that can be in the middle of a call at the same time
Callers == {"c1", "c2"}

Idle ==
    [pc |-> "idle", id |-> "", noexpiry |-> FALSE, score |-> MissingNum,
     new_stars |-> MissingNum, cache_key |-> TopKey(GlobalKey, 0),
     todo |-> <<>>, data |-> NoRecord, result |-> Result("ok", 0), written |-> {}]

(***************************************************************************)
(* The ranking engine and the manager on one store.                        *)
(***************************************************************************)
NoOp ==
    [op |-> "init", id |-> "", arg |-> 0, result |-> Result("ok", 0), written |-> {},
     pre |-> NoRecord, preScore |-> MissingNum, hit |-> FALSE, servedStale |-> FALSE,
     afterExpiry |-> FALSE, failed |-> "", dHits |-> 0, dMisses |-> 0]

Init ==
    /\ hashes = [id \in Ids |-> NoRecord]
    /\ zsets = <<>>
    /\ lists = [id \in Ids |-> <<>>]
    /\ strs = <<>>
    /\ trendTTL = NoExpiry
    /\ source = 0
    /\ calls = 0
    /\ nops = 0
    /\ last = NoOp
    /\ inflight = [c \in Callers |-> Idle]

Locations == {"", "Madrid"}

Next ==
    \/ \E bd \in BusinessData \cup {NoIdData} : Budget /\ Upsert(bd)
    \/ \E id \in Ids, st \in ReviewStars : Budget /\ Review(id, st)
    \/ Budget /\ ReviewNoId
    \/ \E ty \in {"global", "city", "category"}, loc \in {"", "Madrid", "Bars"},
          n \in 0..MaxLimit : Budget /\ Rankings_get_top_businesses(ty, loc, n)
    \/ \E id \in Ids, ty \in {"global", "city", "category"}, loc \in {"", "Madrid", "Bars"} :
          Budget /\ get_rank_position(id, ty, loc)
    \/ \E n \in 0..MaxLimit : Budget /\ get_trending_businesses(n)
    \/ \E b \in BulkLists : Budget /\ create_rankings(b)
    \/ \E id \in Ids, st \in ReviewStars : Budget /\ NewReview(id, st)
    \/ \E id \in Ids, st \in ReviewStars : Budget /\ NewReviewAbsent(id, st)
    \/ \E n \in 0..MaxLimit, city \in Locations : Budget /\ TopCached(n, city)
    \/ \E n \in 0..MaxLimit, city \in Locations : Budget /\ TopComputed(n, city)
    \/ \E dt \in TickSteps : Budget /\ Tick(dt)

Spec == Init /\ [][Next]_vars

(***************************************************************************)
(* The manager alone on the store, as main.py runs it.                     *)
(***************************************************************************)
ManagerBudget == nops < MaxManagerOps

NextManager ==
    \/ \E b \in BulkLists : ManagerBudget /\ create_rankings(b)
    \/ \E id \in Ids, st \in ReviewStars : ManagerBudget /\ NewReview(id, st)
    \/ \E id \in Ids, st \in ReviewStars : ManagerBudget /\ NewReviewAbsent(id, st)
    \/ \E n \in 0..MaxLimit, city \in Locations : ManagerBudget /\ TopCached(n, city)
    \/ \E n \in 0..MaxLimit, city \in Locations : ManagerBudget /\ TopComputed(n, city)
    \/ \E dt \in TickSteps : ManagerBudget /\ Tick(dt)

SpecManager == Init /\ [][NextManager]_vars

(***************************************************************************)
(* The memoization cache alone on the store.                               *)
(***************************************************************************)
CacheBudget == nops < MaxCacheOps

NextCache ==
    \/ \E f \in Funcs, n \in Args : CacheBudget /\ wrapper_hit(f, n)
    \/ \E f \in Funcs, n \in Args : CacheBudget /\ wrapper_miss(f, n)
    \/ \E f \in Funcs, n \in Args : CacheBudget /\ wrapper_corrupt(f, n)
    \/ \E f \in Funcs, n \in Args : CacheBudget /\ ForeignWrite(f, n)
    \/ CacheBudget /\ ChangeSource
    \/ \E f \in Funcs : CacheBudget /\ invalidate_function_cache(f)
    \/ CacheBudget /\ clear_all
    \/ \E dt \in TickSteps : CacheBudget /\ Tick(dt)

SpecCache == Init /\ [][NextCache]_vars

(***************************************************************************)
(* The memoization cache on a store whose counter keys another client can  *)
(* overwrite.                                                              *)
(***************************************************************************)
NextCacheFaults ==
    \/ \E f \in Funcs, n \in Args : CacheBudget /\ wrapper_hit(f, n)
    \/ \E f \in Funcs, n \in Args : CacheBudget /\ wrapper_miss(f, n)
    \/ \E f \in Funcs, n \in Args : CacheBudget /\ wrapper_corrupt(f, n)
    \/ \E f \in Funcs, n \in Args : CacheBudget /\ ForeignWrite(f, n)
    \/ \E key \in StatKeys : CacheBudget /\ ForeignWriteStat(key)
    \/ \E f \in Funcs, n \in Args, command \in {"get", "setex"} :
          CacheBudget /\ wrapper_unavailable(f, n, command)

SpecCacheFaults == Init /\ [][NextCacheFaults]_vars

(***************************************************************************)
(* The manager's cached reads and the memoization cache on one store: both *)
(* write keys under "cache:".                                              *)
(***************************************************************************)
NextCachedReads ==
    \/ \E b \in BulkLists : CacheBudget /\ create_rankings(b)
    \/ \E n \in 1..MaxLimit, city \in Locations : CacheBudget /\ TopCached(n, city)
    \/ \E n \in 1..MaxLimit, city \in Locations : CacheBudget /\ TopComputed(n, city)
    \/ \E f \in Funcs, n \in Args : CacheBudget /\ wrapper_hit(f, n)
    \/ \E f \in Funcs, n \in Args : CacheBudget /\ wrapper_miss(f, n)
    \/ \E pattern \in Patterns : CacheBudget /\ invalidate_pattern(pattern)

SpecCachedReads == Init /\ [][NextCachedReads]_vars

(***************************************************************************)
(* The ranking engine given attribute values that are not numbers, in the  *)
(* call or in the record another writer left.                              *)
(***************************************************************************)
NextMalformed ==
    \/ \E bd \in BusinessData \cup MalformedData : Budget /\ Upsert(bd)
    \/ \E id \in Ids, st \in ReviewStars \cup {BadNum} : Budget /\ Review(id, st)
    \/ \E id \in Ids, m \in MalformedFields : Budget /\ ForeignHSet(id, m)

SpecMalformed == Init /\ [][NextMalformed]_vars

(***************************************************************************)
(* One entity observed more often than its review log holds entries.  The  *)
(* ratings differ among the first observations only, which is enough to    *)
(* tell an old entry of the log from a recent one.                         *)
(***************************************************************************)
NextLog ==
    \/ \E st \in ReviewStars :
          /\ nops < MaxLogOps
          /\ st # Rat(4, 1) => nops < MaxVaried
          /\ ReviewCall("b1", st)

SpecLog == Init /\ [][NextLog]_vars

(***************************************************************************)
(* Concurrent callers: each Redis command of a call is a step of its own,  *)
(* and the commands of two calls interleave.                               *)
(***************************************************************************)
StepBudget == nops < MaxSteps

\* a command of caller c is recorded and the caller moves on
StepOf(c, o, next) ==
    /\ nops' = nops + 1
    /\ last' = o
    /\ inflight' = [inflight EXCEPT ![c] = next]

\* update_ranking_on_review up to redis.zincrby(trending_key, 1, business_id)
ObserveIncr(c, id, new_stars) ==
    LET eff == update_ranking_on_review(id, new_stars)
    IN  /\ inflight[c].pc = "idle"
        /\ eff.current_reviews < MaxPop
        /\ eff.result.status = "ok"
        /\ hashes' = eff.hashes
        /\ zsets' = eff.zsets
        /\ lists' = eff.lists
        /\ UNCHANGED <<strs, trendTTL, source, calls>>
        /\ StepOf(c, Op("zincrby", id, new_stars, Result("ok", 0), {}),
                  [Idle EXCEPT !.pc = "ttl", !.id = id, !.result = eff.result,
                               !.written = eff.written])

\* if self.redis.ttl(trending_key) == -1: the key exists and has no expiry
TrendTtl(c) ==
    /\ inflight[c].pc = "ttl"
    /\ UNCHANGED <<hashes, zsets, lists, strs, trendTTL, source, calls>>
    /\ StepOf(c, Op("ttl", inflight[c].id, 0, Result("ok", 0), {}),
              [inflight[c] EXCEPT
                  !.pc = "expire",
                  !.noexpiry = TrendingKey \in DOMAIN zsets /\ trendTTL = NoExpiry])

\* self.redis.expire(trending_key, 3600) when the TTL read was -1, and the
\* return of update_ranking_on_review; EXPIRE of a key that is gone does
\* nothing
TrendExpire(c) ==
    LET me == inflight[c]
    IN  /\ me.pc = "expire"
        /\ trendTTL' = IF me.noexpiry /\ TrendingKey \in DOMAIN zsets
                       THEN TrendingTTL ELSE trendTTL
        /\ UNCHANGED <<hashes, zsets, lists, strs, source, calls>>
        /\ StepOf(c, [Op(IF me.noexpiry THEN "expire" ELSE "review", me.id, 0,
                         me.result, me.written) EXCEPT !.hit = me.noexpiry],
                  Idle)

NextTrending ==
    \/ \E c \in Callers, id \in Ids, st \in ReviewStars :
          StepBudget /\ ObserveIncr(c, id, st)
    \/ \E c \in Callers : StepBudget /\ TrendTtl(c)
    \/ \E c \in Callers : StepBudget /\ TrendExpire(c)
    \/ \E dt \in TickSteps : StepBudget /\ Tick(dt)

SpecTrending == Init /\ [][NextTrending]_vars

\* the business_data of concurrent upserts: two ratings, so two scores
RaceData ==
    {Dict(id, [city |-> c, stars |-> st, review_count |-> 0, is_open |-> 0,
               categories |-> CsvOf(<<"Bars">>)]) :
        id \in Ids, c \in InCities, st \in ReviewStars}

\* the sorted set keys update_business_ranking writes after the global one,
\* in the order of its ZADD commands
KeysAfterGlobal(bd) ==
    LET cats == FirstCategories(CategoryList(bd.categories))
    IN  (IF CityTag(bd) # "unknown" THEN <<CityKey(CityTag(bd))>> ELSE <<>>)
        \o [i \in 1..Len(cats) |-> CategoryKey(NormTag(cats[i]))]

\* update_business_ranking up to redis.zadd("ranking:business:global", ...)
UpsertZAddGlobal(c, bd) ==
    LET id    == bd.business_id
        score == update_business_ranking(zsets, hashes, bd).score
    IN  /\ inflight[c].pc = "idle"
        /\ zsets' = ZAdd(zsets, GlobalKey, id, score)
        /\ UNCHANGED <<hashes, lists, strs, trendTTL, source, calls>>
        /\ StepOf(c, Op("zadd", id, bd, Result("ok", score), {GlobalKey}),
                  [Idle EXCEPT !.pc = "zadd", !.id = id, !.score = score,
                               !.todo = KeysAfterGlobal(bd), !.data = bd])

\* the next redis.zadd of the call: the city's sorted set, then one per category
UpsertZAdd(c) ==
    LET me == inflight[c]
    IN  /\ me.pc = "zadd"
        /\ me.todo # <<>>
        /\ zsets' = ZAdd(zsets, Head(me.todo), me.id, me.score)
        /\ UNCHANGED <<hashes, lists, strs, trendTTL, source, calls>>
        /\ StepOf(c, Op("zadd", me.id, me.data, Result("ok", me.score), {Head(me.todo)}),
                  [me EXCEPT !.todo = Tail(me.todo)])

\* redis.hset(business_key, mapping=...) and the return of the call
UpsertHSet(c) ==
    LET me == inflight[c]
    IN  /\ me.pc = "zadd"
        /\ me.todo = <<>>
        /\ hashes' = update_business_ranking(zsets, hashes, me.data).hashes
        /\ UNCHANGED <<zsets, lists, strs, trendTTL, source, calls>>
        /\ StepOf(c, Op("hset", me.id, me.data, Result("ok", me.score), {}), Idle)

\* business_data = self.redis.hgetall(business_key) of update_ranking_on_review
ObserveRead(c, id, new_stars) ==
    /\ inflight[c].pc = "idle"
    /\ Exists(hashes[id])
    /\ UNCHANGED <<hashes, zsets, lists, strs, trendTTL, source, calls>>
    /\ StepOf(c, Op("hgetall", id, new_stars, Result("ok", 0), {}),
              [Idle EXCEPT !.pc = "read", !.id = id, !.new_stars = new_stars,
                           !.data = hashes[id]])

\* the rest of update_ranking_on_review, from the record that was read:
\* redis.hset, update_business_ranking, lpush / ltrim, _update_trending
ObserveWrite(c) ==
    LET me  == inflight[c]
        eff == update_ranking_on_review_from(me.data, me.id, me.new_stars)
    IN  /\ me.pc = "read"
        /\ hashes' = eff.hashes
        /\ zsets' = eff.zsets
        /\ lists' = eff.lists
        /\ trendTTL' = IF trendTTL = NoExpiry /\ eff.result.status = "ok"
                       THEN TrendingTTL ELSE trendTTL
        /\ strs' = MarkStale(strs, zsets, eff.zsets, {me.id})
        /\ UNCHANGED <<source, calls>>
        /\ StepOf(c, Op("review", me.id, me.new_stars, eff.result, eff.written), Idle)

\* the entity is created once, with no review counted
CreateObserved(bd) ==
    /\ ~Exists(hashes[bd.business_id])
    /\ \A c \in Callers : inflight[c].pc = "idle"
    /\ Upsert(bd)

NextObservations ==
    \/ \E bd \in RaceData : StepBudget /\ CreateObserved(bd)
    \/ \E c \in Callers, id \in Ids, st \in ReviewStars :
          StepBudget /\ ObserveRead(c, id, st)
    \/ \E c \in Callers : StepBudget /\ ObserveWrite(c)

SpecObservations == Init /\ [][NextObservations]_vars

\* RedisManager.get_top_businesses(limit, city) up to the loop over the ids
\* of zrevrange: the key is not cached and the result is built
TopCompute(c, limit, city) ==
    LET key == ManagerKey(city)
        cache_key == TopKey(key, limit)
        results == Snapshot(ZRevRange(zsets, key, limit - 1), hashes)
    IN  /\ inflight[c].pc = "idle"
        /\ Get(strs, cache_key).enc = "none"
        /\ UNCHANGED <<hashes, zsets, lists, strs, trendTTL, source, calls>>
        /\ StepOf(c, Op("zrevrange", "", [index |-> key, limit |-> limit],
                        Result("ok", results), {}),
                  [Idle EXCEPT !.pc = "computed", !.cache_key = cache_key,
                               !.result = Result("ok", results)])

\* self.client.setex(cache_key, 300, json.dumps(results)) and the return
TopStore(c) ==
    LET me == inflight[c]
    IN  /\ me.pc = "computed"
        /\ strs' = SetEx(strs, me.cache_key, TopCacheTTL, Dumps(me.result.value))
        /\ UNCHANGED <<hashes, zsets, lists, trendTTL, source, calls>>
        /\ StepOf(c, Op("mgr_top", "", [index |-> me.cache_key.index,
                                        limit |-> me.cache_key.limit],
                        me.result, {}),
                  Idle)

\* the businesses of a city, loaded before the first read
CityLists == {l \in BulkLists : \A i \in 1..Len(l) : HasStr(l[i].data.city)}

LoadCity(businesses) ==
    /\ DOMAIN strs = {}
    /\ \A c \in Callers : inflight[c].pc = "idle"
    /\ \A i \in 1..Len(businesses) : ~Exists(hashes[businesses[i].business_id])
    /\ create_rankings(businesses)

ReadCities == {"Madrid"}

NextReaders ==
    \/ \E l \in CityLists : StepBudget /\ LoadCity(l)
    \/ \E c \in Callers, limit \in 1..MaxLimit, city \in ReadCities :
          StepBudget /\ TopCompute(c, limit, city)
    \/ \E c \in Callers : StepBudget /\ TopStore(c)
    \/ \E limit \in 1..MaxLimit, city \in ReadCities : StepBudget /\ TopCached(limit, city)
    \/ \E id \in Ids, st \in ReviewStars : StepBudget /\ NewReview(id, st)

SpecReaders == Init /\ [][NextReaders]_vars

\* RedisManager.invalidate_cache(business_id, city) called on its own
Invalidate(business_id, city) ==
    /\ strs' = invalidate_cache(strs, business_id, city)
    /\ UNCHANGED <<hashes, zsets, lists, trendTTL, source, calls>>
    /\ Step(Op("mgr_invalidate", business_id, city, Result("ok", 0), {}))

\* two cities, the name of one a prefix of the name of the other
PrefixCities == {"Madrid", "Madridejos"}

PrefixLists ==
    {<<[business_id |-> id,
        data |-> [NoRecord EXCEPT !.city = c, !.stars = Rat(4, 1), !.review_count = 2]]>> :
        id \in Ids, c \in PrefixCities}

NextInvalidation ==
    \/ \E l \in PrefixLists : ManagerBudget /\ create_rankings(l)
    \/ \E n \in 1..MaxLimit, city \in PrefixCities : ManagerBudget /\ TopComputed(n, city)
    \/ \E id \in Ids, st \in ReviewStars : ManagerBudget /\ NewReview(id, st)
    \/ \E id \in Ids, city \in PrefixCities : ManagerBudget /\ Invalidate(id, city)

SpecInvalidation == Init /\ [][NextInvalidation]_vars

NextUpserts ==
    \/ \E c \in Callers, bd \in RaceData : StepBudget /\ UpsertZAddGlobal(c, bd)
    \/ \E c \in Callers : StepBudget /\ UpsertZAdd(c)
    \/ \E c \in Callers : StepBudget /\ UpsertHSet(c)

SpecUpserts == Init /\ [][NextUpserts]_vars

(***************************************************************************)
(* Properties                                                              *)
(***************************************************************************)
Observed == last.op \in {"review", "new_review"} /\ last.id \in Ids
Upserted == last.op = "upsert" /\ last.id \in Ids

\* the score of the stored record of id under the Scoring Function
RecordScore(id) ==
    LET h == hashes[id]
    IN  ScoringFunction(h.stars, h.review_count, IF HasInt(h.is_open) THEN h.is_open ELSE 0)

\* the category names a stored or given categories value lists
CategoryNames(c) == IF HasCats(c) THEN c.v ELSE <<>>

\* C1: after update_ranking_on_review of an existing entity, its score in
\* global, in the index of its location and in the indices of its (first 3)
\* categories is the Scoring Function of the updated rating and popularity.
C1_ReviewUpsertsEveryIndex ==
    (last.op = "review" /\ last.id \in Ids /\ Exists(last.pre)) =>
        LET id   == last.id
            city == Lower(last.pre.city)
            cats == CategoryNames(last.pre.categories)
        IN  /\ ScoreIn(zsets, GlobalKey, id) = RecordScore(id)
            /\ city \notin {"", "unknown"} =>
                   ScoreIn(zsets, CityKey(city), id) = RecordScore(id)
            /\ \A i \in 1..Min(MaxCategories, Len(cats)) :
                   ScoreIn(zsets, CategoryKey(NormTag(cats[i])), id) = RecordScore(id)

\* C2: every member of global has the score the Scoring Function gives for
\* its stored record, whichever operation wrote it last.
C2_GlobalScoreIsScoringFunction ==
    \A id \in Members(zsets, GlobalKey) :
        Exists(hashes[id]) => zsets[GlobalKey][id] = RecordScore(id)

\* the indices an upsert of bd is to write: global, the location's, and those
\* of the first three categories
C3_Indices(bd, withUnknown) ==
    LET city == Lower(IF HasStr(bd.city) THEN bd.city ELSE "unknown")
        cats == CategoryNames(bd.categories)
    IN  {GlobalKey}
        \cup (IF withUnknown \/ city # "unknown" THEN {CityKey(city)} ELSE {})
        \cup {CategoryKey(Lower(cats[i])) : i \in 1..Min(3, Len(cats))}

C3_Written(keys) ==
    /\ last.written = keys
    /\ \A k \in keys :
           ScoreIn(zsets, k, last.id) =
               ScoringFunction(last.arg.stars, last.arg.review_count, last.arg.is_open)
    /\ last.result.value =
           ScoringFunction(last.arg.stars, last.arg.review_count, last.arg.is_open)
    /\ Exists(hashes[last.id])
    /\ hashes[last.id].stars = last.arg.stars
    /\ hashes[last.id].review_count = last.arg.review_count

\* C3 as claimed: the upsert writes global, the index of the location and the
\* indices of the first 3 categories, and stores the record.
C3_UpsertWritesLocationIndex ==
    Upserted => C3_Written(C3_Indices(last.arg, TRUE))

\* C3 as amended: as claimed, but no location index is written for an entity
\* whose normalised location is "unknown" (the default of a missing city).
C3_UpsertWritesIndices ==
    Upserted => C3_Written(C3_Indices(last.arg, FALSE))

C3_Witness ==
    /\ Upserted
    /\ Len(CategoryNames(last.arg.categories)) = 4
    /\ last.arg.city = "Madrid"
    /\ last.id \in Members(zsets, CityKey("madrid"))
    /\ last.id \notin Members(zsets, CategoryKey("pubs"))

\* (R * C + r) / (C + 1)
C4_RunningAverage(R, C, r) == <<R[1] * C * r[2] + r[1] * R[2], R[2] * r[2] * (C + 1)>>
C4_Same(p, q) == p[1] * q[2] = q[1] * p[2]

\* C4 as claimed: a review of an existing entity with rating R and popularity
\* C stores the rating (R*C + r)/(C+1) and the popularity C+1.
C4_StoresRunningAverage ==
    (Observed /\ Exists(last.pre)) =>
        /\ C4_Same(hashes[last.id].stars,
                   C4_RunningAverage(last.pre.stars, last.pre.review_count, last.arg))
        /\ hashes[last.id].review_count = last.pre.review_count + 1

\* C4 as amended: update_ranking_on_review stores the running average rounded
\* to two decimals (and returns it unrounded), update_ranking_on_new_review
\* stores it as it is; both store the popularity C+1.
C4_StoresRoundedAverage ==
    (Observed /\ Exists(last.pre)) =>
        LET avg == C4_RunningAverage(last.pre.stars, last.pre.review_count, last.arg)
            st  == hashes[last.id].stars
        IN  /\ hashes[last.id].review_count = last.pre.review_count + 1
            /\ last.op = "new_review" =>
                   /\ C4_Same(st, avg)
                   /\ last.result.status = "ok" => C4_Same(last.result.value, avg)
            /\ last.op = "review" =>
                   /\ C4_Same(last.result.value.new_average, avg)
                   /\ st[2] \in {1, 2, 4, 5, 10, 20, 25, 50, 100}
                   /\ 2 * Abs(st[1] * avg[2] * 100 - avg[1] * st[2] * 100) <= st[2] * avg[2]

\* rating 4.0 with popularity 2 and an observation of 5.0: 13/3 is stored as 4.33
C4_Witness ==
    /\ last.op = "review"
    /\ last.pre.stars = Rat(4, 1) /\ last.pre.review_count = 2 /\ last.arg = Rat(5, 1)
    /\ last.result.value.new_average = Rat(13, 3)
    /\ hashes[last.id].stars = Rat(433, 100) /\ hashes[last.id].review_count = 3

TopRead == last.op \in {"top", "mgr_top"} /\ ~last.hit /\ last.result.status = "ok"

TopScores == IF last.arg.index \in DOMAIN zsets THEN zsets[last.arg.index] ELSE <<>>

\* the result is in descending score order, equal scores in ascending
\* (tiesAscending) or descending order of id
TopSorted(tiesAscending) ==
    LET r == last.result.value
    IN  \A i, j \in 1..Len(r) :
            i < j =>
                LET a == r[i].business_id
                    b == r[j].business_id
                IN  /\ ~RatLess(TopScores[a], TopScores[b])
                    /\ TopScores[a] = TopScores[b] =>
                           IF tiesAscending THEN IdRank(a) < IdRank(b)
                           ELSE IdRank(a) > IdRank(b)

\* C6: topN(index, n) returns at most n entries in descending score order,
\* entries of equal score in ascending order of id.
C6_TopNTiesAscending ==
    TopRead => Len(last.result.value) <= last.arg.limit /\ TopSorted(TRUE)

\* C7: of two consecutive identical topN calls, the first computing the
\* result, the second returns the same result, the first adds 1 to the cache
\* miss counter and the second adds 1 to the cache hit counter.
C7_RepeatedTopNCounted ==
    [][(/\ last.op \in {"top", "mgr_top"}
        /\ ~last.hit
        /\ nops' = nops + 1
        /\ last'.op = last.op
        /\ last'.arg = last.arg)
       => (/\ last'.result = last.result
           /\ last.dMisses = 1
           /\ last'.dHits = 1)]_vars

\* C8: a topN answered from the cache is never answered from an entry that
\* was written before a later upsert or review of an entity of its index.
C8_NoStaleRead ==
    (last.op = "mgr_top" /\ last.hit) => ~last.servedStale

\* the score of the entity in global or its stored location has changed
C9_Changed ==
    \/ ScoreIn(zsets, GlobalKey, last.id) # last.preScore
    \/ hashes[last.id].city # last.pre.city

\* the location tags of the entity before and after the operation
C9_Tags ==
    {Lower(c) : c \in {last.pre.city, hashes[last.id].city} \ {MissingStr, ""}}

\* C9: after an upsert or a review that changed the score or the location of
\* an entity, the cache holds no entry whose key references the entity id or
\* its old or new location tag.
C9_MutationInvalidates ==
    (last.op \in {"upsert", "review", "new_review"} /\ last.id \in Ids /\ C9_Changed) =>
        \A k \in DOMAIN strs :
            /\ ~MatchesId(k, last.id)
            /\ ~(k.kind = "top" /\ k.index.kind = "city" /\ k.index.tag \in C9_Tags)

\* C10: a call of a memoized function whose key holds decodable text returns
\* the decoded text without running the function, adds 1 to the global and
\* to the function's hit counter, and leaves the miss counters, the data
\* size counter, the entry and every other key as they are.
C10_HitOnlyCountsTheHit ==
    [][(last'.op = "memo" /\ last'.hit /\ nops' = nops + 1) =>
        LET f == last'.arg.func
            k == MemoKey(f, last'.arg.arg)
        IN  /\ k \in DOMAIN strs /\ strs[k].val.enc = "json"
            /\ last'.result = Result("ok", strs[k].val.v)
            /\ calls' = calls
            /\ Counter(strs', HitsKey) = Counter(strs, HitsKey) + 1
            /\ Counter(strs', StatKey("hits", f)) = Counter(strs, StatKey("hits", f)) + 1
            /\ Counter(strs', MissesKey) = Counter(strs, MissesKey)
            /\ Counter(strs', StatKey("misses", f)) = Counter(strs, StatKey("misses", f))
            /\ Counter(strs', SizeKey) = Counter(strs, SizeKey)
            /\ k \in DOMAIN strs' /\ strs'[k] = strs[k]
            /\ DOMAIN strs' = DOMAIN strs \cup {HitsKey, StatKey("hits", f)}
            /\ \A x \in DOMAIN strs \ {HitsKey, StatKey("hits", f)} : strs'[x] = strs[x]]_vars

\* a second call of lookup answered from the cache: the tuple comes back as
\* a list, the function has run once
C10_Witness ==
    /\ last.op = "memo" /\ last.hit
    /\ last.arg.func = "lookup"
    /\ last.result.value.t = "list"
    /\ calls = 1
    /\ Counter(strs, HitsKey) = 1 /\ Counter(strs, StatKey("hits", "lookup")) = 1
    /\ Counter(strs, MissesKey) = 1

(***************************************************************************)
(* Memoized calls                                                          *)
(***************************************************************************)
\* the step is a call of a memoized function
MemoStep == last'.op = "memo" /\ nops' = nops + 1

MemoStepKey == MemoKey(last'.arg.func, last'.arg.arg)

\* the function has run once on the current data and its result is returned
MemoComputed ==
    /\ calls' = calls + 1
    /\ last'.result = Result("ok", Compute(last'.arg.func, last'.arg.arg, source))

\* the key holds the JSON text of the result with the TTL of the decorator
MemoStored ==
    LET result == Compute(last'.arg.func, last'.arg.arg, source)
    IN  /\ MemoStepKey \in DOMAIN strs'
        /\ strs'[MemoStepKey].ttl = MemoTTL
        /\ strs'[MemoStepKey].val.enc = "json"
        /\ strs'[MemoStepKey].val.v.v = result.v
        /\ strs'[MemoStepKey].val.v.t = (IF result.t = "tuple" THEN "list" ELSE result.t)

\* the counters of the function f change by dh hits, dm misses, ds size
MemoCounted(dh, dm, ds) ==
    LET f == last'.arg.func
    IN  /\ Counter(strs', HitsKey) = Counter(strs, HitsKey) + dh
        /\ Counter(strs', StatKey("hits", f)) = Counter(strs, StatKey("hits", f)) + dh
        /\ Counter(strs', MissesKey) = Counter(strs, MissesKey) + dm
        /\ Counter(strs', StatKey("misses", f)) = Counter(strs, StatKey("misses", f)) + dm
        /\ Counter(strs', SizeKey) = Counter(strs, SizeKey) + ds

\* C11 as claimed: a memoized call on an absent key runs the function once,
\* stores the serialized result under the key with the TTL, adds 1 to the
\* global and the function's miss counter and the serialized size to the
\* size counter, leaves the hit counters, and returns the result.
C11_MissStoresAndCounts ==
    [][(MemoStep /\ MemoStepKey \notin DOMAIN strs) =>
        /\ MemoComputed
        /\ MemoStored
        /\ MemoCounted(0, 1, JsonLen(Compute(last'.arg.func, last'.arg.arg, source)))]_vars

\* C11 as amended: as claimed when JSON can hold the result; when it cannot
\* (json.dumps raises), the function has still run once and its result is
\* returned, but nothing is stored and no counter changes.
C11_MissStoresWhatJsonHolds ==
    [][(MemoStep /\ MemoStepKey \notin DOMAIN strs) =>
        LET result == Compute(last'.arg.func, last'.arg.arg, source)
        IN  /\ MemoComputed
            /\ result.t # "set" => MemoStored /\ MemoCounted(0, 1, JsonLen(result))
            /\ result.t = "set" => strs' = strs]_vars

\* lookup(3) computed on a store that held nothing: <<3, 0>> is stored as the
\* 6 characters of [3, 0]
C11_Witness ==
    /\ last.op = "memo" /\ ~last.hit
    /\ last.arg = [func |-> "lookup", arg |-> 3]
    /\ calls = 1
    /\ MemoKey("lookup", 3) \in DOMAIN strs
    /\ Counter(strs, MissesKey) = 1 /\ Counter(strs, StatKey("misses", "lookup")) = 1
    /\ Counter(strs, SizeKey) = 6
    /\ Counter(strs, HitsKey) = 0

\* C12: a memoized call on a key whose text is not decodable raises nothing
\* and does what a call on an absent key does: the same result returned, the
\* same entry written, the same counters changed (a miss, no hit).
C12_CorruptCountsAsMiss ==
    [][(/\ MemoStep
        /\ MemoStepKey \in DOMAIN strs
        /\ strs[MemoStepKey].val.enc = "corrupt") =>
        LET result == Compute(last'.arg.func, last'.arg.arg, source)
        IN  /\ MemoComputed
            /\ result.t # "set" => MemoStored /\ MemoCounted(0, 1, JsonLen(result))
            /\ result.t = "set" => MemoCounted(0, 0, 0)]_vars

(***************************************************************************)
(* Counter writes that raise.                                              *)
(***************************************************************************)
StatsWriteFails(func, hit) ==
    Raises(strs, IF hit THEN HitWrites(func) ELSE MissWrites(func, 0))

\* C13: when a write of the hit, miss or size counters fails, the memoized
\* call still returns its value, the cached one on a hit and the computed one
\* on a miss, and the failure does not reach the caller.
C13_StatsFailureNotPropagated ==
    [][MemoStep =>
        LET func == last'.arg.func
            cached == Get(strs, MemoStepKey)
        IN  /\ (cached.enc = "json" /\ StatsWriteFails(func, TRUE)) =>
                    last'.result = Result("ok", Loads(cached))
            /\ (cached.enc = "none" /\ StatsWriteFails(func, FALSE)) =>
                    last'.result = Result("ok", Compute(func, last'.arg.arg, source))]_vars

(***************************************************************************)
(* Invalidation by pattern                                                 *)
(***************************************************************************)
\* the key a cached read looks up
ReadKey(o) ==
    IF o.op = "memo" THEN MemoKey(o.arg.func, o.arg.arg)
    ELSE TopKey(o.arg.index, o.arg.limit)

\* C14: invalidatePattern(p) returning k has removed exactly k keys and left
\* no cache key matching p; the next memoized call or topN whose key matches
\* p computes its result again and is counted as a miss.
C14_InvalidatedReadIsAMiss ==
    [][/\ (last'.op = "invalidate" /\ nops' = nops + 1) =>
            /\ DOMAIN strs' \subseteq DOMAIN strs
            /\ Cardinality(DOMAIN strs \ DOMAIN strs') = last'.result.value
            /\ \A k \in DOMAIN strs' : ~MatchesPattern(k, last'.arg)
       /\ (/\ last.op = "invalidate"
           /\ nops' = nops + 1
           /\ last'.op \in {"memo", "mgr_top"}
           /\ MatchesPattern(ReadKey(last'), last.arg)) =>
            /\ ~last'.hit
            /\ last'.dMisses = 1]_vars

(***************************************************************************)
(* Rank position                                                           *)
(***************************************************************************)
RankRead == last.op = "rank"

RankScores == IF last.arg.index \in DOMAIN zsets THEN zsets[last.arg.index] ELSE <<>>

\* the members of the index read whose score is higher than, or not lower
\* than, the score of the entity asked for
RankedAbove == {m \in DOMAIN RankScores : RatLess(RankScores[last.id], RankScores[m])}
RankedNotBelow ==
    {m \in DOMAIN RankScores \ {last.id} : ~RatLess(RankScores[m], RankScores[last.id])}

\* C15: rankPosition of an entity of the index is its place, counted from 1,
\* in descending score order: after the entities with a higher score and not
\* after one with a lower score; the only entity with the highest score of a
\* non-empty index is at place 1.
C15_RankIsPlaceInDescendingOrder ==
    (RankRead /\ last.id \in DOMAIN RankScores) =>
        /\ last.result.status = "ok"
        /\ last.result.value >= 1 + Cardinality(RankedAbove)
        /\ last.result.value <= 1 + Cardinality(RankedNotBelow)
        /\ RankedNotBelow = {} => last.result.value = 1

C15_Witness ==
    /\ RankRead
    /\ Cardinality(DOMAIN RankScores) = 2
    /\ last.id \in DOMAIN RankScores
    /\ RankedNotBelow = {}
    /\ last.result = Result("ok", 1)

C17_TrendingExpirySetOnce ==
    [][/\ (last'.op = "expire" /\ nops' = nops + 1) => trendTTL = NoExpiry
       /\ (trendTTL # NoExpiry /\ TrendingKey \in DOMAIN zsets') => trendTTL' <= trendTTL]_vars

\* the trending score of id, 0 for an entity the window does not hold
TrendScore(z, id) ==
    IF id \in Members(z, TrendingKey) THEN z[TrendingKey][id] ELSE Rat(0, 1)

\* every observation of an entity adds one to its trending score and leaves
\* the trending scores of the others alone
ObservationCounted ==
    (last'.op = "review" /\ last'.id \in Ids /\ nops' = nops + 1) =>
        \A id \in Ids :
            TrendScore(zsets', id) =
                RatAdd(TrendScore(zsets, id), Rat(IF id = last'.id THEN 1 ELSE 0, 1))

\* a trending read returns at most n entries, with their trending scores, the
\* highest first
TrendingSorted ==
    (last'.op = "trending" /\ nops' = nops + 1) =>
        LET r == last'.result.value
        IN  /\ Len(r) <= last'.arg.limit
            /\ \A i \in 1..Len(r) :
                    Rat(r[i].trend_score, 1) = TrendScore(zsets, r[i].business_id)
            /\ \A i, j \in 1..Len(r) : i < j => r[i].trend_score >= r[j].trend_score

\* C18: within one window the trending score of an entity is the number of
\* observations recorded for it, and topTrending(n) returns up to n entities
\* in descending trending score.
C18_TrendingCountsAndOrders == [][ObservationCounted /\ TrendingSorted]_vars

(***************************************************************************)
(* Malformed attribute values                                              *)
(***************************************************************************)
Malformed(h) == FloatRaises(h.stars) \/ IntRaises(h.review_count) \/ IntRaises(h.is_open)

\* an upsert given, or an observation given or reading, a value that is not
\* a number
MalformedCall ==
    /\ nops' = nops + 1
    /\ last'.id \in Ids
    /\ \/ last'.op = "upsert" /\ Malformed(last'.arg)
       \/ last'.op = "review" /\ (FloatRaises(last'.arg) \/ Malformed(hashes[last'.id]))

\* C19: an upsert or an observation given a rating, popularity or open flag
\* that is not a number, in the call or in the stored record it reads, fails
\* and leaves the record and every index as they were.
C19_MalformedFailsWithoutWrite ==
    [][MalformedCall =>
        /\ last'.result.status = "raise"
        /\ hashes' = hashes
        /\ zsets' = zsets
        /\ lists' = lists]_vars

(***************************************************************************)
(* Concurrent upserts                                                      *)
(***************************************************************************)
\* the indices of the stored record of id: global, its location's, and those
\* of its first three categories
C20_Indices(id) ==
    LET h    == hashes[id]
        cats == CategoryNames(h.categories)
    IN  {GlobalKey}
        \cup (IF HasStr(h.city) /\ h.city \notin {"", "unknown"}
              THEN {CityKey(Lower(h.city))} ELSE {})
        \cup {CategoryKey(Lower(cats[i])) : i \in 1..Min(3, Len(cats))}

UpsertInFlight(id) == \E c \in Callers : inflight[c].pc # "idle" /\ inflight[c].id = id

\* C20: whenever no upsert of an entity is in flight, the entity has one and
\* the same score in global, in the index of its location and in the index
\* of each of its (up to 3) categories, also after concurrent upserts of it
\* have interleaved.
C20_IndicesAgreeWhenQuiet ==
    \A id \in Ids :
        (Exists(hashes[id]) /\ ~UpsertInFlight(id)) =>
            \A k1, k2 \in C20_Indices(id) : ScoreIn(zsets, k1, id) = ScoreIn(zsets, k2, id)

(***************************************************************************)
(* Membership of the ranking indices                                       *)
(***************************************************************************)
RankingIndexKeys(z) == {k \in DOMAIN z : k.kind \in {"global", "city", "category"}}

\* C21: no operation takes an entity out of the global index, a location
\* index or a category index, and an upsert leaves the indices it does not
\* write as they are: an entity whose location or category changes stays in
\* the old index with the score last written there.
C21_MembershipMonotone ==
    [][/\ \A k \in RankingIndexKeys(zsets) :
              k \in DOMAIN zsets' /\ DOMAIN zsets[k] \subseteq DOMAIN zsets'[k]
       /\ (last'.op = "upsert" /\ nops' = nops + 1) =>
              \A k \in RankingIndexKeys(zsets) \ last'.written : zsets'[k] = zsets[k]]_vars

C21_Witness ==
    /\ last.op = "upsert"
    /\ last.id \in Ids
    /\ CategoryNames(hashes[last.id].categories) = <<"Bars">>
    /\ last.id \in Members(zsets, CategoryKey("food"))
    /\ CategoryKey("food") \notin last.written
    /\ ScoreIn(zsets, CategoryKey("food"), last.id) # ScoreIn(zsets, GlobalKey, last.id)

(***************************************************************************)
(* The review log                                                          *)
(***************************************************************************)
\* C22: the review log of an entity never holds more than 100 entries, the
\* newest first: an observation puts its entry in front of the ones the log
\* held, and of 101 entries the oldest one goes.
C22_LogKeepsMostRecent ==
    [][(last'.op = "review" /\ last'.id \in Ids /\ nops' = nops + 1) =>
        LET old == lists[last'.id]
            new == lists'[last'.id]
        IN  /\ Len(new) = Min(Len(old) + 1, 100)
            /\ new[1] = last'.arg
            /\ \A i \in 2..Len(new) : new[i] = old[i - 1]]_vars

C22_Witness ==
    /\ last.op = "review"
    /\ hashes["b1"].review_count = 101
    /\ Len(lists["b1"]) = 100
    /\ \A i \in 1..100 : lists["b1"][i] = Rat(4, 1)
    /\ RatLess(Rat(4, 1), hashes["b1"].stars)

(***************************************************************************)
(* Expiry of cache entries                                                 *)
(***************************************************************************)
\* C23: a cache entry written with TTL t is gone once t seconds or more
\* have passed since it was written, and the first memoized call on its key
\* after that is a miss: it runs the function and writes the entry again
\* with a new TTL.
C23_ExpiredEntryIsRecomputed ==
    [][/\ (last'.op = "tick" /\ nops' = nops + 1) =>
            \A k \in DOMAIN strs :
                strs[k].ttl # NoExpiry =>
                    IF strs[k].ttl <= last'.arg
                    THEN k \notin DOMAIN strs'
                    ELSE k \in DOMAIN strs' /\ strs'[k].ttl = strs[k].ttl - last'.arg
       /\ (MemoStep /\ last.op = "tick" /\ MemoStepKey \in last.written) =>
            /\ MemoComputed
            /\ MemoStored
            /\ MemoCounted(0, 1, JsonLen(Compute(last'.arg.func, last'.arg.arg, source)))]_vars

C23_Witness ==
    /\ last.op = "memo"
    /\ last.afterExpiry
    /\ ~last.hit
    /\ calls = 2
    /\ Counter(strs, MissesKey) = 2
    /\ MemoKey(last.arg.func, last.arg.arg) \in DOMAIN strs
    /\ strs[MemoKey(last.arg.func, last.arg.arg)].ttl = 300

(***************************************************************************)
(* The store failing                                                       *)
(***************************************************************************)
StoreFailed == MemoStep /\ last'.failed # ""

\* C24 as claimed: a failure of the store during a memoized call, the write
\* of the entry on a miss included, reaches the caller as a failure, and the
\* failed command is not sent again.
C24_StoreFailureSurfaced ==
    [][StoreFailed => last'.result.status = "raise" /\ strs' = strs]_vars

\* C24 as amended: a failure of the read of the entry reaches the caller and
\* the function is not run; a failure of the write of the entry on a miss is
\* caught: the call returns what the function computed, the entry is not
\* written and no miss is counted.  The failed command is not sent again.
C24_ReadFailureSurfacedWriteFailureLogged ==
    [][StoreFailed =>
        /\ strs' = strs
        /\ last'.failed = "get" =>
                last'.result = Result("raise", NoValue) /\ calls' = calls
        /\ last'.failed = "setex" =>
                /\ last'.result =
                       Result("ok", Compute(last'.arg.func, last'.arg.arg, source))
                /\ calls' = calls + 1]_vars

C24_Witness ==
    /\ last.op = "memo"
    /\ last.failed = "setex"
    /\ last.result.status = "ok"
    /\ calls = 1
    /\ MemoKey(last.arg.func, last.arg.arg) \notin DOMAIN strs
    /\ Counter(strs, MissesKey) = 0

RECURSIVE SumStars(_)
SumStars(l) == IF l = <<>> THEN Rat(0, 1) ELSE RatAdd(Head(l), SumStars(Tail(l)))

\* the observations completed for id: each one pushed its rating on the log
Observations(id) == lists[id]

Quiet == \A c \in Callers : inflight[c].pc = "idle"

\* C26: when the concurrent update_ranking_on_review calls for an entity
\* created with no review have all returned, the stored review_count is the
\* number of those calls and the stored stars is their average.
C26_NoLostObservation ==
    Quiet =>
        \A id \in Ids :
            Observations(id) # <<>> =>
                /\ hashes[id].review_count = Len(Observations(id))
                /\ hashes[id].stars =
                       Round2(RatDivInt(SumStars(Observations(id)), Len(Observations(id))))

(***************************************************************************)
(* A reader of a city's top-N next to a new review                         *)
(***************************************************************************)
\* C27: when get_top_businesses of a city and update_ranking_on_new_review of
\* an entity of that city have both returned, every cached top-N entry of
\* the city holds what the city's sorted set and the records hold now.
C27_NoStaleEntryAfterRace ==
    Quiet =>
        \A k \in DOMAIN strs :
            (k.kind = "top" /\ k.index.kind = "city") =>
                strs[k].val = Dumps(Snapshot(ZRevRange(zsets, k.index, k.limit - 1), hashes))

(***************************************************************************)
(* The reach of an invalidation                                            *)
(***************************************************************************)
\* the city an invalidation is run for: the one given, or the one of the
\* record update_ranking_on_new_review read
InvalidatedCity(o) == IF o.op = "mgr_invalidate" THEN o.arg ELSE o.pre.city

\* the cache entry is one of entity id or of the index of the city
BelongsTo(k, id, city) ==
    \/ k.kind = "top" /\ k.index = CityKey(NormTag(city))
    \/ k.kind = "top" /\ k.index.tag = id
    \/ k.kind \in {"memo", "stats"} /\ k.func = id

\* C28: an invalidation run for entity e of city c deletes only cache
\* entries of e or of c; run on its own it leaves the records, the sorted
\* sets and the logs as they were.
C28_InvalidationIsScoped ==
    [][(last'.op \in {"mgr_invalidate", "new_review"} /\ nops' = nops + 1) =>
          /\ \A k \in DOMAIN strs \ DOMAIN strs' :
                 BelongsTo(k, last'.id, InvalidatedCity(last'))
          /\ last'.op = "mgr_invalidate" =>
                 hashes' = hashes /\ zsets' = zsets /\ lists' = lists]_vars

(***************************************************************************)
(* One count per call                                                      *)
(***************************************************************************)
\* C29: every memoized call that returns a value adds 1 to exactly one of the
\* global hit counter and the global miss counter, and nothing to the other.
C29_OneCountPerCall ==
    [][(MemoStep /\ last'.result.status = "ok") =>
          LET dh == Counter(strs', HitsKey) - Counter(strs, HitsKey)
              dm == Counter(strs', MissesKey) - Counter(strs, MissesKey)
          IN  (dh = 1 /\ dm = 0) \/ (dh = 0 /\ dm = 1)]_vars

(***************************************************************************)
(* Index members and their records                                         *)
(***************************************************************************)
\* every member of a global, city or category sorted set has a record
IndexedHaveRecords ==
    \A k \in RankingIndexKeys(zsets) : \A id \in DOMAIN zsets[k] : Exists(hashes[id])

\* C30: between calls every member of a global, city or category sorted set
\* has a record, and get_top_businesses with limit n on a sorted set of at
\* least n members returns exactly n entries.
C30_IndexMembersAreReturned ==
    /\ IndexedHaveRecords
    /\ (last.op = "top" /\ Cardinality(Members(zsets, last.arg.index)) >= last.arg.limit) =>
           Len(last.result.value) = last.arg.limit

====
